---- MODULE Spec2Model ----
(***************************************************************************)
(* Model of mullvad-daemon/src/tunnel.rs: the tunnel parameters generator  *)
(* (ParametersGenerator / InnerParametersGenerator), the task that keeps   *)
(* its cached AuthDetails up to date, and the handles that call it.        *)
(***************************************************************************)
EXTENDS Naturals, Sequences, FiniteSets, TLC

(* ------------------------------ bounds --------------------------------- *)

\* Number of device (credential) changes the account manager makes in a run.
MaxChanges == 2

\* Largest retry attempt passed to generate.
MaxRetry == 1

(* ------------------------------ values --------------------------------- *)

\* Option<T>
None == [some |-> FALSE]
Some(x) == [some |-> TRUE, val |-> x]

\* The generator handle returned by new and one clone of it.
Handles == {"h1", "h2"}

RetryAttempts == 0..MaxRetry

Stockholm == [country |-> "Sweden", city |-> "Stockholm", latitude |-> 59, longitude |-> 18]
Berlin == [country |-> "Germany", city |-> "Berlin", latitude |-> 52, longitude |-> 13]

\* mullvad_types::relay_list::Relay: hostname and Option<Location>.
LocatedRelays ==
    { [hostname |-> "se-sto-001", location |-> Some(Stockholm)],
      [hostname |-> "de-ber-001", location |-> Some(Berlin)] }

\* A relay whose location metadata was never filled in.
UnlocatedRelays == { [hostname |-> "xx-nil-001", location |-> None] }

\* mullvad_types::settings::TunnelOptions: openvpn, wireguard.options, generic.
TunnelOptionsSet ==
    { [openvpn |-> [mssfix |-> "default"], wireguard |-> [options |-> [mtu |-> "default"]],
       generic |-> [enable_ipv6 |-> FALSE]],
      [openvpn |-> [mssfix |-> "1300"], wireguard |-> [options |-> [mtu |-> "1280"]],
       generic |-> [enable_ipv6 |-> TRUE]] }

\* What the account manager hands out: account token, device and WireGuard data.
\* An address is a network (ip/prefix), as WireguardData stores it.
DeviceDataSet ==
    { [token |-> "1111", device |-> "dev-a",
       wg_data |-> [private_key |-> "key-a",
                    addresses |-> [ipv4_address |-> [ip |-> "10.0.0.1", prefix |-> "32"],
                                   ipv6_address |-> [ip |-> "fe80::1", prefix |-> "128"]]]],
      [token |-> "2222", device |-> "dev-b",
       wg_data |-> [private_key |-> "key-b",
                    addresses |-> [ipv4_address |-> [ip |-> "10.0.0.2", prefix |-> "32"],
                                   ipv6_address |-> [ip |-> "fe80::2", prefix |-> "128"]]]] }

\* Before new is called: not logged in, or logged in on the first device.
InitialDeviceData == {None, Some([token |-> "1111", device |-> "dev-a",
       wg_data |-> [private_key |-> "key-a",
                    addresses |-> [ipv4_address |-> [ip |-> "10.0.0.1", prefix |-> "32"],
                                   ipv6_address |-> [ip |-> "fe80::1", prefix |-> "128"]]]])}

OptionalDeviceData == {None} \cup { Some(d) : d \in DeviceDataSet }

\* AuthDetails { openvpn_user: data.token, wg_data: data.wg_data }
ToAuthDetails(data) == [openvpn_user |-> data.token, wg_data |-> data.wg_data]

\* Option<data>.map(|data| AuthDetails { .. })
MapAuthDetails(opt) == IF opt.some THEN Some(ToAuthDetails(opt.val)) ELSE None

\* A device event carries the new device data, or none when the device is gone.
into_data(event) == event.data

(* -------------------------- relay selector ------------------------------ *)

\* MullvadEndpoint::Wireguard for a chain: the peer is the first hop.
WireguardEndpoint(exit, entry) ==
    [protocol |-> "Wireguard",
     peer |-> IF entry.some THEN entry.val.hostname ELSE exit.hostname,
     exit_peer |-> IF entry.some THEN Some(exit.hostname) ELSE None,
     ipv4_gateway |-> "10.64.0.1",
     ipv6_gateway |-> "fc00:bbbb:bbbb:bb01::1"]

\* MullvadEndpoint::OpenVpn
OpenVpnEndpoint(relay) == [protocol |-> "OpenVpn", address |-> relay.hostname]

\* Ok((SelectedRelay::Normal(constraints), bridge, obfuscator)) with a WireGuard
\* endpoint: any exit, no entry or another relay as entry, no obfuscator or one.
WireguardSelections(pool) ==
    UNION { { [kind |-> "Normal", exit_relay |-> x, entry_relay |-> e,
               endpoint |-> WireguardEndpoint(x, e), bridge |-> None, obfuscator |-> o] :
                e \in {None} \cup { Some(r) : r \in pool \ {x} },
                o \in {None} \cup { Some([relay |-> r, config |-> [udp2tcp |-> r.hostname]]) :
                                       r \in pool \ {x} } } :
            x \in pool }

\* SelectedBridge::Normal { settings, relay } | SelectedBridge::Custom(settings)
Bridges(relays) ==
    { [kind |-> "Normal", settings |-> [proxy |-> r.hostname], relay |-> r] : r \in relays }
        \cup { [kind |-> "Custom", settings |-> [proxy |-> "custom-bridge"]] }

\* Ok((SelectedRelay::Normal(constraints), bridge, obfuscator)) with an OpenVPN
\* endpoint: any relay, no bridge, a custom bridge or another relay as bridge.
OpenVpnSelections(pool) ==
    UNION { { [kind |-> "Normal", exit_relay |-> x, entry_relay |-> None,
               endpoint |-> OpenVpnEndpoint(x), bridge |-> b, obfuscator |-> None] :
                b \in {None} \cup { Some(br) : br \in Bridges(pool \ {x}) } } :
            x \in pool }

\* Ok((SelectedRelay::Custom(custom_relay), _, _)): the custom host resolves or not.
CustomSelections ==
    { [kind |-> "Custom", host |-> "custom.example", resolves |-> b] : b \in BOOLEAN }

\* Err(mullvad_relay_selector::Error::NoBridge) and any other selector error.
SelectorErrors ==
    { [kind |-> "Err", error |-> e] : e \in {"NoBridge", "NoRelay", "NoObfuscator"} }

\* Everything get_relay(retry_attempt) can return when it picks from pool.
SelectorResults(pool) ==
    WireguardSelections(pool) \cup OpenVpnSelections(pool) \cup CustomSelections
        \cup SelectorErrors

(* -------------------------- pure functions ------------------------------ *)

\* CustomTunnelEndpoint::to_tunnel_parameters(tunnel_options, None)
CustomToTunnelParameters(custom_relay, options) ==
    IF custom_relay.resolves
    THEN [ok |-> TRUE,
          params |-> [kind |-> "Custom", host |-> custom_relay.host,
                      options |-> options, proxy |-> None]]
    ELSE [ok |-> FALSE, inner |-> "ResolveCustomHostnameError"]

\* Every error is reported as NoMatchingRelay (a bug the code does not have).
MapErrorCoarse(error) == "NoMatchingRelay"

\* The error mapping of TunnelParametersGenerator::generate.
MapError(error) ==
    CASE error = "NoBridgeAvailable" -> "NoMatchingBridgeRelay"
      [] error = "ResolveCustomHostnameError" -> "CustomTunnelHostResultionError"
      [] OTHER -> "NoMatchingRelay"

\* inner.generate(retry_attempt).map_err(..)
MapResult(result) ==
    IF result.ok THEN result
    ELSE [ok |-> FALSE, inner |-> result.inner, error |-> MapError(result.inner)]

\* |relay: &Option<Relay>| relay.as_ref().map(|relay| relay.hostname.clone())
take_hostname(relay) == IF relay.some THEN Some(relay.val.hostname) ELSE None

\* The location of the first hop is reported (a bug the code does not have).
LocationRelayFirstHop(relays) ==
    IF relays.kind = "WireGuard"
    THEN IF relays.wg_entry.some THEN relays.wg_entry.val ELSE relays.wg_exit
    ELSE IF relays.bridge.some THEN relays.bridge.val ELSE relays.relay

\* The relay whose location get_last_location reports.
LocationRelay(relays) == IF relays.kind = "WireGuard" THEN relays.wg_exit ELSE relays.relay

\* Some(GeoIpLocation { .. }) built by get_last_location from a record whose
\* authoritative relay has a location.
GeoIpLocation(relays) ==
    LET location == LocationRelay(relays).location.val IN
    [ipv4 |-> None,
     ipv6 |-> None,
     country |-> location.country,
     city |-> Some(location.city),
     latitude |-> location.latitude,
     longitude |-> location.longitude,
     mullvad_exit_ip |-> TRUE,
     hostname |-> Some(LocationRelay(relays).hostname),
     bridge_hostname |-> IF relays.kind = "WireGuard" THEN None
                         ELSE take_hostname(relays.bridge),
     entry_hostname |-> IF relays.kind = "WireGuard" THEN take_hostname(relays.wg_entry)
                        ELSE None,
     obfuscator_hostname |-> IF relays.kind = "WireGuard"
                             THEN take_hostname(relays.obfuscator) ELSE None]

\* The bridge relay is not recorded (a bug the code does not have).
BridgeRelayForgotten(bridge) == None

\* (bridge_settings, bridge_relay) of the OpenVPN arm.
BridgeSettings(bridge) == IF bridge.some THEN Some(bridge.val.settings) ELSE None
BridgeRelay(bridge) ==
    IF bridge.some /\ bridge.val.kind = "Normal" THEN Some(bridge.val.relay) ELSE None

\* LastSelectedRelays::OpenVpn { relay, bridge }
OpenVpnRelays(relay, bridge) ==
    [kind |-> "OpenVpn", relay |-> relay, bridge |-> BridgeRelay(bridge)]

\* (obfuscator_relay, obfuscator_config) of the WireGuard arm.
ObfuscatorRelay(obfuscator) == IF obfuscator.some THEN Some(obfuscator.val.relay) ELSE None
ObfuscatorConfig(obfuscator) == IF obfuscator.some THEN Some(obfuscator.val.config) ELSE None

\* LastSelectedRelays::WireGuard { wg_entry, wg_exit, obfuscator }
WireGuardRelays(relay, entry_relay, obfuscator) ==
    [kind |-> "WireGuard", wg_entry |-> entry_relay, wg_exit |-> relay,
     obfuscator |-> ObfuscatorRelay(obfuscator)]

\* IpNetwork::ip(): the address of a network, without its prefix.
ip(network) == network.ip

\* The addresses in the wrong order (a bug the code does not have).
TunnelAddressesSwapped(wg_data) ==
    << ip(wg_data.addresses.ipv6_address), ip(wg_data.addresses.ipv4_address) >>

\* vec![ipv4_address.ip().into(), ipv6_address.ip().into()]
TunnelAddresses(wg_data) ==
    << ip(wg_data.addresses.ipv4_address), ip(wg_data.addresses.ipv6_address) >>

\* openvpn::TunnelParameters { config, options, generic_options, proxy }
OpenVpnParameters(endpoint, user, options, bridge) ==
    [kind |-> "OpenVpn",
     config |-> [endpoint |-> endpoint, username |-> user, password |-> "-"],
     options |-> options.openvpn,
     generic_options |-> options.generic,
     proxy |-> BridgeSettings(bridge)]

\* wireguard::TunnelParameters { connection, options, generic_options, obfuscation }
WireguardParameters(endpoint, private_key, addresses, options, obfuscator) ==
    [kind |-> "Wireguard",
     connection |-> [tunnel |-> [private_key |-> private_key, addresses |-> addresses],
                     peer |-> endpoint.peer,
                     exit_peer |-> endpoint.exit_peer,
                     ipv4_gateway |-> endpoint.ipv4_gateway,
                     ipv6_gateway |-> Some(endpoint.ipv6_gateway)],
     options |-> options.wireguard.options,
     generic_options |-> options.generic,
     obfuscation |-> ObfuscatorConfig(obfuscator)]

(* ------------------------------ state ---------------------------------- *)

VARIABLES
    relay_list,             \* the relays the relay selector picks from
    tunnel_options,         \* InnerParametersGenerator.tunnel_options
    auth_details,           \* InnerParametersGenerator.auth_details
    last_generated_relays,  \* InnerParametersGenerator.last_generated_relays
    mutex,                  \* "free", or the handle whose generate holds the lock
    poisoned,               \* a thread panicked while holding the lock
    device_data,            \* the account manager's current device data
    listener,               \* receive_events has registered device_event_tx
    device_event_rx,        \* events sent and not yet received by the updater
    tx_closed,              \* the account manager shut down and dropped device_event_tx
    changes,                \* device changes the account manager may still make
    updater_pc,             \* where the spawned updater task is
    updater_event,          \* the event the updater is applying
    pc,                     \* where each handle's thread is
    call,                   \* the locals of each handle's running call
    hist,                   \* what each handle's running call has seen so far
    applied,                \* how many events the updater applied and what the last one wrote
    last_ok,                \* the relays of the last successful generate
    returned                \* what the step just taken returned to its caller

shared == << tunnel_options, auth_details, last_generated_relays >>
source == << device_data, listener, device_event_rx, tx_closed, changes >>
updater == << updater_pc, updater_event >>
threads == << pc, call, hist >>

vars == << relay_list, tunnel_options, auth_details, last_generated_relays, mutex,
           poisoned, device_data, listener, device_event_rx, tx_closed, changes,
           updater_pc, updater_event, pc, call, hist, applied, last_ok, returned >>

NoCall == [retry_attempt |-> 0, fetched |-> None]

\* No event has been applied.
NoneApplied == [n |-> 0, auth |-> None]

NoHist ==
    [start_auth |-> None, start_applied |-> 0,
     lock_auth |-> None, lock_last |-> None, lock_options |-> None,
     selector_calls |-> 0, selected |-> None]

\* The step returned nothing to a caller.
Nothing == [op |-> "none"]

\* The step ended the operation op in a panic; locked tells whether the lock
\* was held by it (and so is poisoned from now on).
Panicked(op, locked) == [op |-> "panic", in |-> op, locked |-> locked]

\* A handle that exists: new is still running on it, or it is usable.
Alive(h) == pc[h] \notin {"none", "dropped", "new_failed", "panicked"}

\* Weak::upgrade succeeds while some handle (an Arc) is left.
Upgradable == \E h \in Handles : Alive(h)

\* spawn_auth_updater has stored the fetched AuthDetails (new returned Ok).
Installed == pc["h1"] \notin {"new_spawn", "new_fetch", "new_fetched", "new_failed"}

\* ParametersGenerator::new up to the call of spawn_auth_updater: the inner
\* state holds the given options, no AuthDetails and no relays.
InitWith(pool, budget) ==
    /\ relay_list = pool
    /\ tunnel_options \in TunnelOptionsSet
    /\ auth_details = None
    /\ last_generated_relays = None
    /\ mutex = "free"
    /\ poisoned = FALSE
    /\ device_data \in InitialDeviceData
    /\ listener = FALSE
    /\ device_event_rx = << >>
    /\ tx_closed = FALSE
    /\ changes = budget
    /\ updater_pc = "unspawned"
    /\ updater_event = None
    /\ pc = [h \in Handles |-> IF h = "h1" THEN "new_spawn" ELSE "none"]
    /\ call = [h \in Handles |-> NoCall]
    /\ hist = [h \in Handles |-> NoHist]
    /\ applied = NoneApplied
    /\ last_ok = None
    /\ returned = Nothing

FirstRelay == CHOOSE r \in LocatedRelays : r.hostname = "se-sto-001"

Init == InitWith({FirstRelay}, MaxChanges)

(* ------------------------- account manager ----------------------------- *)

\* The device changes (login, key rotation, logout, revocation); a registered
\* listener is sent an event with the new data.
DeviceChange(data) ==
    /\ changes > 0
    /\ ~tx_closed
    /\ data # device_data
    /\ device_data' = data
    /\ changes' = changes - 1
    /\ device_event_rx' = IF listener
                          THEN Append(device_event_rx, [data |-> data])
                          ELSE device_event_rx
    /\ returned' = Nothing
    /\ UNCHANGED << relay_list, shared, mutex, poisoned, listener, tx_closed, updater,
                    threads, applied, last_ok >>

\* The account manager shuts down and drops the sender: the stream ends.
CloseEvents ==
    /\ ~tx_closed
    /\ tx_closed' = TRUE
    /\ returned' = Nothing
    /\ UNCHANGED << relay_list, shared, mutex, poisoned, device_data, listener,
                    device_event_rx, changes, updater, threads, applied, last_ok >>

(* ------------------------------- new ----------------------------------- *)

\* spawn_auth_updater, lines 132-157: the channel, the weak reference and
\* tokio::spawn of the updater task.
SpawnAuthUpdater(h) ==
    /\ pc[h] = "new_spawn"
    /\ updater_pc' = "register"
    /\ pc' = [pc EXCEPT ![h] = "new_fetch"]
    /\ returned' = Nothing
    /\ UNCHANGED << relay_list, shared, mutex, poisoned, source, updater_event, call,
                    hist, applied, last_ok >>

\* account_manager_copy.data().await: the right-hand side of the assignment of
\* line 159 is evaluated before the lock is taken. The fetch fails, or yields
\* the current device data (none when there is no device).
FetchDeviceData(h) ==
    /\ pc[h] = "new_fetch"
    /\ pc' = [pc EXCEPT ![h] = "new_fetched"]
    /\ \/ call' = [call EXCEPT ![h].fetched = [ok |-> TRUE, data |-> device_data]]
       \/ call' = [call EXCEPT ![h].fetched = [ok |-> FALSE]]
    /\ returned' = Nothing
    /\ UNCHANGED << relay_list, shared, mutex, poisoned, source, updater, hist, applied,
                    last_ok >>

\* new treats missing device data like a failed fetch (a bug the code does not have).
InstallAuthDetailsStrict(h) ==
    /\ pc[h] = "new_fetched"
    /\ IF ~call[h].fetched.ok \/ ~call[h].fetched.data.some
       THEN /\ pc' = [pc EXCEPT ![h] = "new_failed"]
            /\ auth_details' = auth_details
            /\ returned' = [op |-> "new", handle |-> h, ok |-> FALSE,
                            error |-> "NoAuthDetails", fetch |-> call[h].fetched]
       ELSE /\ mutex = "free"
            /\ auth_details' = MapAuthDetails(call[h].fetched.data)
            /\ pc' = [pc EXCEPT ![h] = "idle"]
            /\ returned' = [op |-> "new", handle |-> h, ok |-> TRUE,
                            fetch |-> call[h].fetched]
    /\ call' = [call EXCEPT ![h] = NoCall]
    /\ UNCHANGED << relay_list, tunnel_options, last_generated_relays, mutex, poisoned,
                    source, updater, hist, applied, last_ok >>

\* The fetched data are stored only if no event was applied meanwhile (a bug
\* the code does not have).
InstallAuthDetailsUnlessApplied(h) ==
    /\ pc[h] = "new_fetched"
    /\ IF ~call[h].fetched.ok
       THEN /\ pc' = [pc EXCEPT ![h] = "new_failed"]
            /\ auth_details' = auth_details
            /\ returned' = [op |-> "new", handle |-> h, ok |-> FALSE,
                            error |-> "NoAuthDetails", fetch |-> call[h].fetched]
       ELSE /\ mutex = "free"
            /\ auth_details' = IF applied.n > 0 THEN auth_details
                               ELSE MapAuthDetails(call[h].fetched.data)
            /\ pc' = [pc EXCEPT ![h] = "idle"]
            /\ returned' = [op |-> "new", handle |-> h, ok |-> TRUE,
                            fetch |-> call[h].fetched]
    /\ call' = [call EXCEPT ![h] = NoCall]
    /\ UNCHANGED << relay_list, tunnel_options, last_generated_relays, mutex, poisoned,
                    source, updater, hist, applied, last_ok >>

\* Lines 159-175 after the fetch: .map_err(..)? makes spawn_auth_updater and new
\* return Err(NoAuthDetails), dropping self_; otherwise
\* self.0.lock().unwrap().auth_details = <fetched>.map(..), Ok(()) and Ok(self_).
InstallAuthDetails(h) ==
    /\ pc[h] = "new_fetched"
    /\ IF ~call[h].fetched.ok
       THEN /\ pc' = [pc EXCEPT ![h] = "new_failed"]
            /\ auth_details' = auth_details
            /\ returned' = [op |-> "new", handle |-> h, ok |-> FALSE,
                            error |-> "NoAuthDetails", fetch |-> call[h].fetched]
       ELSE /\ mutex = "free"
            /\ auth_details' = MapAuthDetails(call[h].fetched.data)
            /\ pc' = [pc EXCEPT ![h] = "idle"]
            /\ returned' = [op |-> "new", handle |-> h, ok |-> TRUE,
                            fetch |-> call[h].fetched]
    /\ call' = [call EXCEPT ![h] = NoCall]
    /\ UNCHANGED << relay_list, tunnel_options, last_generated_relays, mutex, poisoned,
                    source, updater, hist, applied, last_ok >>

(* ----------------------------- updater --------------------------------- *)

\* account_manager.receive_events(device_event_tx).await.expect(..)
RegisterListener ==
    /\ updater_pc = "register"
    /\ \/ /\ listener' = TRUE
          /\ updater_pc' = "listen"
       \/ /\ listener' = listener
          /\ updater_pc' = "panicked"
    /\ returned' = Nothing
    /\ UNCHANGED << relay_list, shared, mutex, poisoned, device_data, device_event_rx,
                    tx_closed, changes, updater_event, threads, applied, last_ok >>

\* The task holds the state by a strong reference: every event is applied
\* (a bug the code does not have).
ReceiveEventStrong ==
    /\ updater_pc = "listen"
    /\ device_event_rx # << >>
    /\ device_event_rx' = Tail(device_event_rx)
    /\ updater_pc' = "upgraded"
    /\ updater_event' = Some(Head(device_event_rx))
    /\ returned' = Nothing
    /\ UNCHANGED << relay_list, shared, mutex, poisoned, device_data, listener,
                    tx_closed, changes, threads, applied, last_ok >>

\* device_event_rx.next().await yields an event; match self_.upgrade().
ReceiveEvent ==
    /\ updater_pc = "listen"
    /\ device_event_rx # << >>
    /\ device_event_rx' = Tail(device_event_rx)
    /\ IF Upgradable
       THEN /\ updater_pc' = "upgraded"
            /\ updater_event' = Some(Head(device_event_rx))
       ELSE /\ updater_pc' = "done"
            /\ updater_event' = None
    /\ returned' = Nothing
    /\ UNCHANGED << relay_list, shared, mutex, poisoned, device_data, listener,
                    tx_closed, changes, threads, applied, last_ok >>

\* device_event_rx.next().await yields None: the while-let loop ends.
EventsEnded ==
    /\ updater_pc = "listen"
    /\ device_event_rx = << >>
    /\ tx_closed
    /\ updater_pc' = "done"
    /\ returned' = Nothing
    /\ UNCHANGED << relay_list, shared, mutex, poisoned, source, updater_event, threads,
                    applied, last_ok >>

\* The event is applied without waiting for the lock (a bug the code does
\* not have).
ApplyEventUnlocked ==
    /\ updater_pc = "upgraded"
    /\ updater_event' = None
    /\ updater_pc' = "listen"
    /\ auth_details' = MapAuthDetails(into_data(updater_event.val))
    /\ applied' = [n |-> applied.n + 1, auth |-> auth_details']
    /\ returned' = [op |-> "apply", upgradable |-> Upgradable]
    /\ UNCHANGED << relay_list, tunnel_options, last_generated_relays, mutex, poisoned,
                    source, threads, last_ok >>

\* self_.lock().unwrap().auth_details = event.into_data().map(..)
ApplyEvent ==
    /\ updater_pc = "upgraded"
    /\ mutex = "free"
    /\ updater_event' = None
    /\ IF poisoned
       THEN /\ updater_pc' = "panicked"
            /\ UNCHANGED << auth_details, applied >>
            /\ returned' = Panicked("apply", FALSE)
       ELSE /\ updater_pc' = "listen"
            /\ auth_details' = MapAuthDetails(into_data(updater_event.val))
            /\ applied' = [n |-> applied.n + 1, auth |-> auth_details']
            /\ returned' = [op |-> "apply", upgradable |-> Upgradable]
    /\ UNCHANGED << relay_list, tunnel_options, last_generated_relays, mutex, poisoned,
                    source, threads, last_ok >>

(* ------------------------------ handles -------------------------------- *)

\* #[derive(Clone)]: another handle to the same Arc<Mutex<..>>.
Clone(h, c) ==
    /\ pc[h] = "idle"
    /\ pc[c] = "none"
    /\ pc' = [pc EXCEPT ![c] = "idle"]
    /\ returned' = Nothing
    /\ UNCHANGED << relay_list, shared, mutex, poisoned, source, updater, call, hist,
                    applied, last_ok >>

\* The handle goes out of scope.
Drop(h) ==
    /\ pc[h] = "idle"
    /\ pc' = [pc EXCEPT ![h] = "dropped"]
    /\ returned' = Nothing
    /\ UNCHANGED << relay_list, shared, mutex, poisoned, source, updater, call, hist,
                    applied, last_ok >>

\* New options start from a clean record (a bug the code does not have).
SetTunnelOptionsResetting(h, options) ==
    /\ pc[h] = "idle"
    /\ mutex = "free"
    /\ tunnel_options' = options
    /\ last_generated_relays' = None
    /\ returned' = [op |-> "set_tunnel_options", handle |-> h, options |-> options]
    /\ UNCHANGED << relay_list, auth_details, mutex, poisoned, source, updater, threads,
                    applied, last_ok >>

\* self.0.lock().unwrap().tunnel_options = tunnel_options.clone()
SetTunnelOptions(h, options) ==
    /\ pc[h] = "idle"
    /\ mutex = "free"
    /\ IF poisoned
       THEN /\ pc' = [pc EXCEPT ![h] = "panicked"]
            /\ tunnel_options' = tunnel_options
            /\ returned' = Panicked("set_tunnel_options", FALSE)
       ELSE /\ pc' = pc
            /\ tunnel_options' = options
            /\ returned' = [op |-> "set_tunnel_options", handle |-> h,
                            options |-> options]
    /\ UNCHANGED << relay_list, auth_details, last_generated_relays, mutex, poisoned,
                    source, updater, call, hist, applied, last_ok >>

\* The record is taken out of the state, not borrowed (a bug the code does
\* not have).
GetLastLocationTaking(h) ==
    /\ pc[h] = "idle"
    /\ mutex = "free"
    /\ ~poisoned
    /\ last_generated_relays' = None
    /\ returned' = [op |-> "get_last_location", handle |-> h,
                    value |-> IF last_generated_relays.some
                              THEN Some(GeoIpLocation(last_generated_relays.val))
                              ELSE None]
    /\ UNCHANGED << relay_list, tunnel_options, auth_details, mutex, poisoned, source,
                    updater, threads, applied, last_ok >>

\* get_last_location: None for no record, a panic (which poisons the lock) for
\* a record whose relay has no location, the GeoIpLocation otherwise.
GetLastLocation(h) ==
    /\ pc[h] = "idle"
    /\ mutex = "free"
    /\ IF poisoned
       THEN /\ pc' = [pc EXCEPT ![h] = "panicked"]
            /\ poisoned' = poisoned
            /\ returned' = Panicked("get_last_location", FALSE)
       ELSE IF ~last_generated_relays.some
       THEN /\ pc' = pc
            /\ poisoned' = poisoned
            /\ returned' = [op |-> "get_last_location", handle |-> h, value |-> None]
       ELSE IF ~LocationRelay(last_generated_relays.val).location.some
       THEN /\ pc' = [pc EXCEPT ![h] = "panicked"]
            /\ poisoned' = TRUE
            /\ returned' = Panicked("get_last_location", TRUE)
       ELSE /\ pc' = pc
            /\ poisoned' = poisoned
            /\ returned' = [op |-> "get_last_location", handle |-> h,
                            value |-> Some(GeoIpLocation(last_generated_relays.val))]
    /\ UNCHANGED << relay_list, shared, mutex, source, updater, call, hist, applied,
                    last_ok >>

\* TunnelParametersGenerator::generate is called with retry_attempt.
GenerateCall(h, retry_attempt) ==
    /\ pc[h] = "idle"
    /\ pc' = [pc EXCEPT ![h] = "gen_wait"]
    /\ call' = [call EXCEPT ![h] = [NoCall EXCEPT !.retry_attempt = retry_attempt]]
    /\ hist' = [hist EXCEPT ![h] = [NoHist EXCEPT !.start_auth = auth_details,
                                                  !.start_applied = applied.n]]
    /\ returned' = Nothing
    /\ UNCHANGED << relay_list, shared, mutex, poisoned, source, updater, applied,
                    last_ok >>

\* let mut inner = self.0.lock().unwrap();
GenerateLock(h) ==
    /\ pc[h] = "gen_wait"
    /\ mutex = "free"
    /\ IF poisoned
       THEN /\ pc' = [pc EXCEPT ![h] = "panicked"]
            /\ UNCHANGED << mutex, hist >>
            /\ returned' = Panicked("generate", FALSE)
       ELSE /\ pc' = [pc EXCEPT ![h] = "gen_inner"]
            /\ mutex' = h
            /\ hist' = [hist EXCEPT ![h].lock_auth = auth_details,
                                    ![h].lock_last = last_generated_relays,
                                    ![h].lock_options = tunnel_options]
            /\ returned' = Nothing
    /\ UNCHANGED << relay_list, shared, poisoned, source, updater, call, applied,
                    last_ok >>

\* The relays a selector result makes the tunnel use: the record a successful
\* generate is to leave behind (a custom relay is none of the relay list).
UsedRelays(selection) ==
    IF selection.kind = "Custom" THEN None
    ELSE IF selection.endpoint.protocol = "Wireguard"
    THEN Some([kind |-> "WireGuard",
               wg_entry |-> selection.entry_relay,
               wg_exit |-> selection.exit_relay,
               obfuscator |-> IF selection.obfuscator.some
                              THEN Some(selection.obfuscator.val.relay) ELSE None])
    ELSE Some([kind |-> "OpenVpn",
               relay |-> selection.exit_relay,
               bridge |-> IF selection.bridge.some /\ selection.bridge.val.kind = "Normal"
                          THEN Some(selection.bridge.val.relay) ELSE None])

\* create_tunnel_parameters: Ok(parameters), or Err(NoAuthDetails) (line 215).
TunnelParametersFor(auth, options, sel) ==
    IF ~auth.some THEN [ok |-> FALSE, inner |-> "NoAuthDetails"]
    ELSE IF sel.endpoint.protocol = "OpenVpn"
    THEN [ok |-> TRUE,
          params |-> OpenVpnParameters(sel.endpoint, auth.val.openvpn_user, options,
                                       sel.bridge)]
    ELSE [ok |-> TRUE,
          params |-> WireguardParameters(sel.endpoint, auth.val.wg_data.private_key,
                                         TunnelAddresses(auth.val.wg_data), options,
                                         sel.obfuscator)]

\* create_tunnel_parameters: the record it stores in last_generated_relays
\* (lines 228 and 263); the old one when it fails at line 215.
RelaysFor(auth, relays, sel) ==
    IF ~auth.some THEN relays
    ELSE IF sel.endpoint.protocol = "OpenVpn"
    THEN Some(OpenVpnRelays(sel.exit_relay, sel.bridge))
    ELSE Some(WireGuardRelays(sel.exit_relay, sel.entry_relay, sel.obfuscator))

\* Every selector error is reported as NoRelayAvailable (a bug the code does
\* not have).
MatchResultOneError(auth, options, r) ==
    CASE r.kind = "Custom" -> CustomToTunnelParameters(r, options)
      [] r.kind = "Normal" -> TunnelParametersFor(auth, options, r)
      [] OTHER -> [ok |-> FALSE, inner |-> "NoRelayAvailable"]

\* The match of InnerParametersGenerator::generate (lines 183-203) on what
\* get_relay returned: the result of generate.
MatchResult(auth, options, r) ==
    CASE r.kind = "Custom" -> CustomToTunnelParameters(r, options)
      [] r.kind = "Normal" -> TunnelParametersFor(auth, options, r)
      [] r.kind = "Err" /\ r.error = "NoBridge" ->
            [ok |-> FALSE, inner |-> "NoBridgeAvailable"]
      [] OTHER -> [ok |-> FALSE, inner |-> "NoRelayAvailable"]

\* The same match: the record last_generated_relays holds after it.
MatchRelays(auth, relays, r) ==
    IF r.kind = "Normal" THEN RelaysFor(auth, relays, r) ELSE relays

\* A failed call clears the record (a bug the code does not have).
FinishClearing(h, result, relays, seen) ==
    /\ last_generated_relays' = IF result.ok THEN relays ELSE None
    /\ mutex' = "free"
    /\ pc' = [pc EXCEPT ![h] = "idle"]
    /\ call' = [call EXCEPT ![h] = NoCall]
    /\ hist' = [hist EXCEPT ![h] = NoHist]
    /\ last_ok' = IF result.ok THEN Some([kind |-> seen.selected.val.kind,
                                          relays |-> UsedRelays(seen.selected.val)])
                  ELSE last_ok
    /\ returned' = [op |-> "generate", handle |-> h,
                    retry_attempt |-> call[h].retry_attempt,
                    result |-> MapResult(result),
                    seen |-> seen,
                    end_auth |-> auth_details,
                    end_last |-> last_generated_relays',
                    end_options |-> tunnel_options]

\* The call returns and the guard is never dropped (a bug the code does not
\* have).
FinishHolding(h, result, relays, seen) ==
    /\ last_generated_relays' = relays
    /\ mutex' = mutex
    /\ pc' = [pc EXCEPT ![h] = "idle"]
    /\ call' = [call EXCEPT ![h] = NoCall]
    /\ hist' = [hist EXCEPT ![h] = NoHist]
    /\ last_ok' = IF result.ok THEN Some([kind |-> seen.selected.val.kind,
                                          relays |-> UsedRelays(seen.selected.val)])
                  ELSE last_ok
    /\ returned' = [op |-> "generate", handle |-> h,
                    retry_attempt |-> call[h].retry_attempt,
                    result |-> MapResult(result),
                    seen |-> seen,
                    end_auth |-> auth_details,
                    end_last |-> relays,
                    end_options |-> tunnel_options]

\* The call returns result: map_err, the guard is dropped, the caller has it.
\* relays is the record the call leaves, seen is what the call noted so far.
Finish(h, result, relays, seen) ==
    /\ last_generated_relays' = relays
    /\ mutex' = "free"
    /\ pc' = [pc EXCEPT ![h] = "idle"]
    /\ call' = [call EXCEPT ![h] = NoCall]
    /\ hist' = [hist EXCEPT ![h] = NoHist]
    /\ last_ok' = IF result.ok THEN Some([kind |-> seen.selected.val.kind,
                                          relays |-> UsedRelays(seen.selected.val)])
                  ELSE last_ok
    /\ returned' = [op |-> "generate", handle |-> h,
                    retry_attempt |-> call[h].retry_attempt,
                    result |-> MapResult(result),
                    seen |-> seen,
                    end_auth |-> auth_details,
                    end_last |-> relays,
                    end_options |-> tunnel_options]

\* The relay selector is asked before the AuthDetails are looked at, which
\* create_tunnel_parameters alone does (a bug the code does not have).
InnerGenerateSelectFirst(h) ==
    /\ pc[h] = "gen_inner"
    /\ \E r \in SelectorResults(relay_list) :
          Finish(h, IF ~auth_details.some THEN [ok |-> FALSE, inner |-> "NoAuthDetails"]
                    ELSE MatchResult(auth_details, tunnel_options, r),
                 MatchRelays(auth_details, last_generated_relays, r),
                 [hist[h] EXCEPT !.selector_calls = @ + 1, !.selected = Some(r)])
    /\ UNCHANGED << relay_list, tunnel_options, auth_details, poisoned, source, updater,
                    applied >>

\* InnerParametersGenerator::generate and create_tunnel_parameters, run with
\* the lock held, and the return of TunnelParametersGenerator::generate.
InnerGenerate(h) ==
    /\ pc[h] = "gen_inner"
    /\ IF ~auth_details.some
       THEN Finish(h, [ok |-> FALSE, inner |-> "NoAuthDetails"],
                   last_generated_relays, hist[h])
       ELSE \E r \in SelectorResults(relay_list) :
              Finish(h, MatchResult(auth_details, tunnel_options, r),
                     MatchRelays(auth_details, last_generated_relays, r),
                     [hist[h] EXCEPT !.selector_calls = @ + 1, !.selected = Some(r)])
    /\ UNCHANGED << relay_list, tunnel_options, auth_details, poisoned, source, updater,
                    applied >>

(* --------------------------- specification ----------------------------- *)

\* The steps of the account manager, of new, of the updater task and of one
\* handle's calls.
NextOneHandle ==
    \/ \E data \in OptionalDeviceData : DeviceChange(data)
    \/ CloseEvents
    \/ \E h \in Handles : SpawnAuthUpdater(h)
    \/ \E h \in Handles : FetchDeviceData(h)
    \/ \E h \in Handles : InstallAuthDetails(h)
    \/ RegisterListener
    \/ ReceiveEvent
    \/ EventsEnded
    \/ ApplyEvent
    \/ \E h \in Handles : Drop(h)
    \/ \E h \in Handles, options \in TunnelOptionsSet : SetTunnelOptions(h, options)
    \/ \E h \in Handles : GetLastLocation(h)
    \/ \E h \in Handles, n \in RetryAttempts : GenerateCall(h, n)
    \/ \E h \in Handles : GenerateLock(h)
    \/ \E h \in Handles : InnerGenerate(h)

\* The same with the handle cloned.
Next ==
    \/ NextOneHandle
    \/ \E h, c \in Handles : Clone(h, c)

\* The handle new returns is never cloned and the selector has one relay to
\* pick; the account manager makes up to MaxChanges device changes.
Spec == Init /\ [][NextOneHandle]_vars

\* The selector picks among all located relays; one device change.
InitRelays == InitWith(LocatedRelays, 1)

SpecRelays == InitRelays /\ [][NextOneHandle]_vars

\* The handle is cloned; one relay, one device change.
InitClones == InitWith({FirstRelay}, 1)

SpecClones == InitClones /\ [][Next]_vars

\* The selector's only relay has no location; the handle is cloned; one device
\* change.
InitUnlocated == InitWith(UnlocatedRelays, 1)

SpecUnlocated == InitUnlocated /\ [][Next]_vars

\* Scheduling: a thread inside generate runs on to its return, and a thread
\* waiting for the lock (a generate, the updater with an event, new with the
\* fetched data) gets it eventually when it is free again and again.
Fairness ==
    /\ \A h \in Handles : WF_vars(InnerGenerate(h))
    /\ \A h \in Handles : SF_vars(GenerateLock(h))
    /\ \A h \in Handles : SF_vars(InstallAuthDetails(h))
    /\ SF_vars(ApplyEvent)

\* One handle, one relay, one device change, under this scheduling.
InitLive == InitWith({FirstRelay}, 1)

SpecLive == InitLive /\ [][NextOneHandle]_vars /\ Fairness

(* ------------------------------ claims --------------------------------- *)

\* The step just taken returned from generate.
Generated == returned.op = "generate"

\* C1: for every retry attempt, a generate that runs with no AuthDetails cached
\* fails with NoAuthDetails and does not call the relay selector.
TheoremC1 ==
    (Generated /\ ~returned.seen.lock_auth.some) =>
        /\ ~returned.result.ok
        /\ returned.result.inner = "NoAuthDetails"
        /\ returned.seen.selector_calls = 0

\* A retry (not the first attempt) ran without AuthDetails.
WitnessC1 ==
    /\ Generated
    /\ ~returned.seen.lock_auth.some
    /\ returned.retry_attempt > 0

\* C2: after every successful generate, whatever the selector returned (a
\* WireGuard selection, an OpenVPN selection, a custom relay),
\* last_generated_relays holds the relays that call used, never those of an
\* earlier call.
ClaimC2 ==
    (Generated /\ returned.result.ok) =>
        returned.end_last = UsedRelays(returned.seen.selected.val)

\* The fields C3 names, compared with the relays of a generation.
LocationOf(location, relays) ==
    IF relays.kind = "WireGuard"
    THEN /\ location.hostname = Some(relays.wg_exit.hostname)
         /\ relays.wg_exit.location.some
         /\ location.country = relays.wg_exit.location.val.country
         /\ location.city = Some(relays.wg_exit.location.val.city)
         /\ location.latitude = relays.wg_exit.location.val.latitude
         /\ location.longitude = relays.wg_exit.location.val.longitude
         /\ location.entry_hostname =
                (IF relays.wg_entry.some THEN Some(relays.wg_entry.val.hostname) ELSE None)
         /\ location.obfuscator_hostname =
                (IF relays.obfuscator.some THEN Some(relays.obfuscator.val.hostname)
                 ELSE None)
         /\ location.bridge_hostname = None
    ELSE /\ location.hostname = Some(relays.relay.hostname)
         /\ relays.relay.location.some
         /\ location.country = relays.relay.location.val.country
         /\ location.city = Some(relays.relay.location.val.city)
         /\ location.latitude = relays.relay.location.val.latitude
         /\ location.longitude = relays.relay.location.val.longitude
         /\ location.bridge_hostname =
                (IF relays.bridge.some THEN Some(relays.bridge.val.hostname) ELSE None)
         /\ location.entry_hostname = None
         /\ location.obfuscator_hostname = None

Located(relays) ==
    IF relays.kind = "WireGuard" THEN relays.wg_exit.location.some
    ELSE relays.relay.location.some

TheoremC4 ==
    (Generated /\ ~returned.result.ok) =>
        /\ returned.result.inner \in {"NoAuthDetails", "NoRelayAvailable",
                                      "NoBridgeAvailable", "ResolveCustomHostnameError"}
        /\ returned.end_auth = returned.seen.lock_auth
        /\ returned.end_last = returned.seen.lock_last
        /\ returned.end_options = returned.seen.lock_options

\* A custom relay failed to resolve while a record of an earlier generation
\* was held.
WitnessC4 ==
    /\ Generated
    /\ ~returned.result.ok
    /\ returned.result.inner = "ResolveCustomHostnameError"
    /\ returned.seen.lock_last.some
    /\ returned.seen.lock_auth.some

\* C5: new stores the fetched AuthDetails before the updater task is started,
\* so that no event is applied before the initial AuthDetails are stored.
ClaimC5 == ~Installed => applied.n = 0

\* What generate returns to its caller for AuthDetails auth, options and the
\* selector's answer r (which is not asked for without AuthDetails).
ResultFrom(auth, options, r) ==
    MapResult(IF ~auth.some THEN [ok |-> FALSE, inner |-> "NoAuthDetails"]
              ELSE MatchResult(auth, options, r))

\* The selector's answer of the call that returned, or any answer had it not
\* been asked.
Answers ==
    IF returned.seen.selected.some THEN {returned.seen.selected.val}
    ELSE SelectorResults(relay_list)

\* C6 as stated: an event applied after generate was called and before it took
\* the lock does not affect the result, which is the one the AuthDetails cached
\* when generate was called give.
ClaimC6 ==
    Generated =>
        \E r \in Answers :
            returned.result = ResultFrom(returned.seen.start_auth,
                                         returned.seen.lock_options, r)

\* C6 amended: such an event is visible to the call; the result is the one the
\* AuthDetails cached when generate took the lock give, and nothing applied
\* later changes it.
TheoremC6 ==
    Generated =>
        /\ returned.seen.selected.some = returned.seen.lock_auth.some
        /\ \E r \in Answers :
              returned.result = ResultFrom(returned.seen.lock_auth,
                                           returned.seen.lock_options, r)

\* An event was applied between the call of generate and its taking the lock,
\* and the call succeeded with the new AuthDetails.
WitnessC6 ==
    /\ Generated
    /\ returned.seen.start_auth # returned.seen.lock_auth
    /\ returned.seen.start_auth.some
    /\ returned.result.ok

\* C7: a generate called after the updater applied an event reads the
\* AuthDetails of the latest event applied when it holds the lock, never older
\* ones.
ClaimC7 ==
    \A h \in Handles :
        (pc[h] = "gen_inner" /\ hist[h].start_applied > 0) =>
            auth_details = applied.auth

\* C8: the private key and the addresses [IPv4, IPv6] of a successful WireGuard
\* generation are those of the AuthDetails cached when generate took the lock.
TheoremC8 ==
    (Generated /\ returned.result.ok /\ returned.result.params.kind = "Wireguard") =>
        /\ returned.seen.lock_auth.some
        /\ LET wg_data == returned.seen.lock_auth.val.wg_data
               tunnel == returned.result.params.connection.tunnel
           IN  /\ tunnel.private_key = wg_data.private_key
               /\ Len(tunnel.addresses) = 2
               /\ tunnel.addresses[1] = wg_data.addresses.ipv4_address.ip
               /\ tunnel.addresses[2] = wg_data.addresses.ipv6_address.ip

\* A WireGuard generation succeeded with one event applied between its call
\* and its taking the lock and another event waiting for the lock.
WitnessC8 ==
    /\ Generated
    /\ returned.result.ok
    /\ returned.result.params.kind = "Wireguard"
    /\ returned.seen.start_auth.some
    /\ returned.seen.start_auth # returned.seen.lock_auth
    /\ updater_pc = "upgraded"

TheoremC10 ==
    /\ [](/\ (returned.op = "new") =>
                /\ returned.ok = returned.fetch.ok
                /\ ~returned.ok => returned.error = "NoAuthDetails"
                /\ (returned.ok /\ ~returned.fetch.data.some) => ~auth_details.some
          /\ (Generated /\ ~returned.seen.lock_auth.some) =>
                (~returned.result.ok /\ returned.result.inner = "NoAuthDetails"))
    /\ [][(Installed /\ ~auth_details.some /\ auth_details'.some) =>
              (returned'.op = "apply" /\ updater_event.val.data.some)]_vars

\* new succeeded without a device and, no event applied yet, generate failed
\* with NoAuthDetails.
WitnessC10 ==
    /\ Generated
    /\ applied.n = 0
    /\ ~returned.result.ok
    /\ returned.result.inner = "NoAuthDetails"

\* C11: with AuthDetails cached, a selector error NoBridge makes generate fail
\* with NoBridgeAvailable and every other selector error makes it fail with
\* NoRelayAvailable, for every retry attempt.
TheoremC11 ==
    (/\ Generated
     /\ returned.seen.lock_auth.some
     /\ returned.seen.selected.some
     /\ returned.seen.selected.val.kind = "Err") =>
        /\ ~returned.result.ok
        /\ returned.result.inner =
              (IF returned.seen.selected.val.error = "NoBridge"
               THEN "NoBridgeAvailable" ELSE "NoRelayAvailable")

\* A retry on which the selector found no bridge, with a record of an earlier
\* generation held.
WitnessC11 ==
    /\ Generated
    /\ returned.retry_attempt > 0
    /\ returned.seen.lock_auth.some
    /\ returned.seen.lock_last.some
    /\ returned.seen.selected.some
    /\ returned.seen.selected.val = [kind |-> "Err", error |-> "NoBridge"]

\* The option fields of tunnel parameters are those of options.
BuiltFrom(params, options) ==
    CASE params.kind = "Wireguard" ->
            /\ params.options = options.wireguard.options
            /\ params.generic_options = options.generic
      [] params.kind = "OpenVpn" ->
            /\ params.options = options.openvpn
            /\ params.generic_options = options.generic
      [] OTHER -> params.options = options

\* C12: set_tunnel_options, through the handle or a clone, replaces the stored
\* options and nothing else, and never while a generate holds the lock; the
\* options change in no other way; so a generate builds its parameters from
\* the options stored when it took the lock, those of the last
\* set_tunnel_options before it.
TheoremC12 ==
    /\ []((Generated /\ returned.result.ok) =>
            /\ BuiltFrom(returned.result.params, returned.seen.lock_options)
            /\ returned.end_options = returned.seen.lock_options)
    /\ [][/\ (returned'.op = "set_tunnel_options") =>
                /\ tunnel_options' = returned'.options
                /\ auth_details' = auth_details
                /\ last_generated_relays' = last_generated_relays
                /\ \A h \in Handles : pc[h] # "gen_inner"
          /\ (tunnel_options' # tunnel_options) => returned'.op = "set_tunnel_options"
          /\ \A h \in Handles :
                (pc[h] = "gen_wait" /\ pc'[h] = "gen_inner") =>
                    hist'[h].lock_options = tunnel_options
         ]_vars

\* The clone has just set new options while the first handle's generate waits
\* for the lock, with AuthDetails cached and a record of an earlier generation.
WitnessC12 ==
    /\ returned.op = "set_tunnel_options"
    /\ returned.handle = "h2"
    /\ pc["h1"] = "gen_wait"
    /\ auth_details.some
    /\ last_generated_relays.some

\* C13: generate reports NoBridgeAvailable as NoMatchingBridgeRelay,
\* ResolveCustomHostnameError as CustomTunnelHostResultionError, and
\* NoRelayAvailable and NoAuthDetails as NoMatchingRelay; a successful result
\* of the inner generate is returned as it is.
TheoremC13 ==
    Generated =>
        IF returned.result.ok
        THEN /\ returned.seen.selected.some
             /\ returned.result = MatchResult(returned.seen.lock_auth,
                                              returned.seen.lock_options,
                                              returned.seen.selected.val)
        ELSE /\ returned.result.inner = "NoBridgeAvailable" =>
                    returned.result.error = "NoMatchingBridgeRelay"
             /\ returned.result.inner = "ResolveCustomHostnameError" =>
                    returned.result.error = "CustomTunnelHostResultionError"
             /\ returned.result.inner \in {"NoRelayAvailable", "NoAuthDetails"} =>
                    returned.result.error = "NoMatchingRelay"
             /\ returned.result.inner \in {"NoBridgeAvailable", "ResolveCustomHostnameError",
                                           "NoRelayAvailable", "NoAuthDetails"}

\* A custom relay failed to resolve on a retry.
WitnessC13 ==
    /\ Generated
    /\ returned.retry_attempt > 0
    /\ ~returned.result.ok
    /\ returned.result.inner = "ResolveCustomHostnameError"
    /\ returned.result.error = "CustomTunnelHostResultionError"

\* C14: while no generate has succeeded, get_last_location returns None,
\* whatever events, set_tunnel_options calls and failed generates there were;
\* and no call of it, returning or not, changes tunnel_options, auth_details
\* or last_generated_relays.
TheoremC14 ==
    /\ []((returned.op = "get_last_location" /\ ~last_ok.some) => ~returned.value.some)
    /\ [][(\/ returned'.op = "get_last_location"
           \/ (returned'.op = "panic" /\ returned'.in = "get_last_location")) =>
              /\ tunnel_options' = tunnel_options
              /\ auth_details' = auth_details
              /\ last_generated_relays' = last_generated_relays
         ]_vars

\* get_last_location returned nothing with AuthDetails cached by an applied
\* event, no generate having succeeded.
WitnessC14 ==
    /\ returned.op = "get_last_location"
    /\ ~last_ok.some
    /\ ~returned.value.some
    /\ applied.n > 0
    /\ auth_details.some

\* C15: the last write wins at startup: when new returns Ok the cache holds
\* the fetched data, also when the updater has applied an event in between,
\* whose newer data are then lost.
TheoremC15 ==
    (returned.op = "new" /\ returned.ok) =>
        auth_details = MapAuthDetails(returned.fetch.data)

\* new returned with the fetched data cached, after the updater had applied
\* an event with the newer data the account manager still has.
WitnessC15 ==
    /\ returned.op = "new"
    /\ returned.ok
    /\ applied.n > 0
    /\ applied.auth = MapAuthDetails(device_data)
    /\ auth_details # applied.auth
    /\ auth_details = MapAuthDetails(returned.fetch.data)

\* C16: once new has returned, the cache holds the data of the last event the
\* updater applied (none when that event had none).
ClaimC16 == (Installed /\ applied.n > 0) => auth_details = applied.auth

\* C17: a successful OpenVPN generation records the selected exit relay as the
\* relay; with a normal bridge the parameters carry the bridge's proxy
\* settings and the record its relay; with a custom bridge the parameters
\* carry its settings and the record no bridge relay; with no bridge there
\* are neither proxy settings nor a bridge relay.
TheoremC17 ==
    (/\ Generated
     /\ returned.result.ok
     /\ returned.seen.selected.val.kind = "Normal"
     /\ returned.seen.selected.val.endpoint.protocol = "OpenVpn") =>
        LET sel == returned.seen.selected.val
            params == returned.result.params
        IN  /\ params.kind = "OpenVpn"
            /\ returned.end_last.some
            /\ returned.end_last.val.kind = "OpenVpn"
            /\ returned.end_last.val.relay = sel.exit_relay
            /\ CASE ~sel.bridge.some ->
                        /\ params.proxy = None
                        /\ returned.end_last.val.bridge = None
                 [] sel.bridge.some /\ sel.bridge.val.kind = "Custom" ->
                        /\ params.proxy = Some(sel.bridge.val.settings)
                        /\ returned.end_last.val.bridge = None
                 [] OTHER ->
                        /\ params.proxy = Some(sel.bridge.val.settings)
                        /\ returned.end_last.val.bridge = Some(sel.bridge.val.relay)

\* An OpenVPN generation through a normal bridge replaced the record, without
\* a bridge relay, of a generation on the other relay.
WitnessC17 ==
    /\ Generated
    /\ returned.result.ok
    /\ returned.seen.selected.val.kind = "Normal"
    /\ returned.seen.selected.val.endpoint.protocol = "OpenVpn"
    /\ returned.seen.selected.val.bridge.some
    /\ returned.seen.selected.val.bridge.val.kind = "Normal"
    /\ returned.seen.lock_last.some
    /\ returned.seen.lock_last.val.kind = "OpenVpn"
    /\ returned.seen.lock_last.val.bridge = None
    /\ returned.seen.lock_last.val.relay # returned.seen.selected.val.exit_relay

\* C18: the listener is registered before the fetch reads the device data, so
\* every later change reaches the updater: when new has returned and the
\* listening updater has applied no event and has none left to receive, the
\* cache holds the account manager's current data.
ClaimC18 ==
    (/\ Installed
     /\ updater_pc = "listen"
     /\ device_event_rx = << >>
     /\ applied.n = 0) => auth_details = MapAuthDetails(device_data)

ClaimC20 ==
    /\ (returned.op = "get_last_location" /\ last_generated_relays.some) =>
            returned.value.some
    /\ returned.op # "panic"
    /\ ~poisoned

====
